---------------------------- MODULE Spec2Model ----------------------------
(***************************************************************************)
(* A model of maxpar.TaskSystem: construction-time validation of the task  *)
(* list and of the precedence dictionary, dependency resolution, the       *)
(* sequential run (run_seq) and the conflict-aware parallel run (run).     *)
(*                                                                         *)
(* A Task is a record [name, reads, writes, run]; its run is a list of     *)
(* statements over the global variables, executed one load or store at a   *)
(* time.  A dict is a sequence of [key, val] entries in insertion order    *)
(* with unique keys.                                                       *)
(***************************************************************************)
EXTENDS Naturals, Sequences, FiniteSets

VARIABLES
    tasks,        \* argument `tasks` of TaskSystem.__init__: a list of Task
    precedence,   \* argument `precedence`: dict name -> list of names
    status,       \* "new", "ok", or the name of the exception __init__ raised
    self_tasks,   \* self.tasks: the registered tasks, in insertion order
    mode,         \* "none", "seq" (run_seq was called) or "par" (run was called)
    pc,           \* position of the caller inside run_seq / run
    queue,        \* the Queue of run_seq (`sequence`) and of run (`queue`)
    processes,    \* run: names of the tasks whose thread is in `processes`
    executed,     \* run: the set `executed`
    th,           \* per task: state of the thread (or call) running its action
    started,      \* per task: how many times its action was started in the call
    mem,          \* the globals the task actions read and write
    ret,          \* outcome of the last call of get_dependencies
    failed,       \* the tasks whose action raised an exception in the call
    calls         \* how many calls of run_seq / run were made

vars == <<tasks, precedence, status, self_tasks, mode, pc, queue, processes,
          executed, th, started, mem, ret, failed, calls>>

-----------------------------------------------------------------------------
(* Bounds of the model.                                                    *)

MaxTasks == 3

MaxEdges == 2

\* Construction alone: predecessor entries and task list length.
MaxConsEdges == 3

MaxListLen == 3

\* Calls of run_seq / run made one after the other on a TaskSystem.
MaxCalls == 2

NameSeq == <<"T1", "T2", "T3", "T4", "T5", "T6">>

\* The task names of the generated task systems.
Names == {NameSeq[i] : i \in 1..MaxTasks}

\* A name no Task of the model carries.
Ghost == "unknown_task"

GlobalVars == {"X", "Y", "Z"}

-----------------------------------------------------------------------------
(* Sequences and dicts.                                                    *)

Range(s) == {s[i] : i \in 1..Len(s)}

\* key in d
HasKey(d, k) == \E i \in 1..Len(d) : d[i].key = k

\* d[k], for a key d holds
Get(d, k) == d[CHOOSE i \in 1..Len(d) : d[i].key = k].val

Keys(d) == {d[i].key : i \in 1..Len(d)}

\* Position of a name in the order T1 < T2 < ... < unknown_task.
Idx(n) == IF n = Ghost THEN Len(NameSeq) + 1
          ELSE CHOOSE i \in 1..Len(NameSeq) : NameSeq[i] = n

\* The least name of a non-empty set of names.
Least(S) == CHOOSE x \in S : \A y \in S : Idx(x) <= Idx(y)

\* The names of a set in ascending order.
RECURSIVE Ascending(_)
Ascending(S) ==
    IF S = {} THEN << >>
    ELSE <<Least(S)>> \o Ascending(S \ {Least(S)})

\* d with d[k] = v: a new key goes last, a key d holds keeps its place.
Put(d, k, v) ==
    IF HasKey(d, k)
    THEN [i \in 1..Len(d) |-> IF d[i].key = k THEN [key |-> k, val |-> v] ELSE d[i]]
    ELSE Append(d, [key |-> k, val |-> v])

Reverse(s) == [i \in 1..Len(s) |-> s[Len(s) + 1 - i]]

-----------------------------------------------------------------------------
(* TaskSystem.__init__ and the validation of the precedence dictionary.    *)

\* RegisterTasks with an empty list of predecessors taken for no entry.
RECURSIVE RegisterTasksEmptyIsMissing(_, _, _, _, _)
RegisterTasksEmptyIsMissing(tsk, prec, i, task_names, stasks) ==
    IF i > Len(tsk) THEN [err |-> "ok", stasks |-> stasks]
    ELSE IF ~HasKey(prec, tsk[i].name) \/ Get(prec, tsk[i].name) = << >>
         THEN [err |-> "NoTaskPrecedenceError", stasks |-> stasks]
    ELSE IF tsk[i].name \in task_names
         THEN [err |-> "DuplicateTaskError", stasks |-> stasks]
    ELSE RegisterTasksEmptyIsMissing(tsk, prec, i + 1,
                                     task_names \cup {tsk[i].name},
                                     Put(stasks, tsk[i].name, tsk[i]))

\* RegisterTasks without the test of task_names: a task whose name repeats
\* takes the place of the earlier one in self.tasks.
RECURSIVE RegisterTasksOverwrite(_, _, _, _, _)
RegisterTasksOverwrite(tsk, prec, i, task_names, stasks) ==
    IF i > Len(tsk) THEN [err |-> "ok", stasks |-> stasks]
    ELSE IF ~HasKey(prec, tsk[i].name)
         THEN [err |-> "NoTaskPrecedenceError", stasks |-> stasks]
    ELSE RegisterTasksOverwrite(tsk, prec, i + 1,
                                task_names \cup {tsk[i].name},
                                Put(stasks, tsk[i].name, tsk[i]))

\* The loop over `tasks` of __init__: the exception it raises, or "ok" and
\* the dict self.tasks it built.
RECURSIVE RegisterTasks(_, _, _, _, _)
RegisterTasks(tsk, prec, i, task_names, stasks) ==
    IF i > Len(tsk) THEN [err |-> "ok", stasks |-> stasks]
    ELSE IF ~HasKey(prec, tsk[i].name)
         THEN [err |-> "NoTaskPrecedenceError", stasks |-> stasks]
    ELSE IF tsk[i].name \in task_names
         THEN [err |-> "DuplicateTaskError", stasks |-> stasks]
    ELSE RegisterTasks(tsk, prec, i + 1, task_names \cup {tsk[i].name},
                       Put(stasks, tsk[i].name, tsk[i]))

\* UnknownKey with the check made for the first key only.
UnknownKeyFirstOnly(prec, stasks) ==
    Len(prec) > 0 /\ ~HasKey(stasks, prec[1].key)

\* The loop over the keys of `precedence` of __init__.
UnknownKey(prec, stasks) == \E i \in 1..Len(prec) : ~HasKey(stasks, prec[i].key)

\* The inner loop of the first part of __validate_precedence_dict: `task` is
\* added to the dependents of each of its predecessors.
RECURSIVE AddDependents(_, _, _, _)
AddDependents(dependencies, task, dependent_tasks, j) ==
    IF j > Len(dependent_tasks) THEN dependencies
    ELSE LET dt == dependent_tasks[j]
             d1 == IF HasKey(dependencies, dt) THEN dependencies
                   ELSE Put(dependencies, dt, {})
         IN  AddDependents(Put(d1, dt, Get(d1, dt) \cup {task}),
                           task, dependent_tasks, j + 1)

\* The first part of __validate_precedence_dict: the self-dependency check and
\* the dict `dependencies` (task -> set of the tasks that list it).
RECURSIVE BuildDependencies(_, _, _)
BuildDependencies(prec, i, dependencies) ==
    IF i > Len(prec) THEN [selfdep |-> FALSE, dependencies |-> dependencies]
    ELSE LET task == prec[i].key
             dependent_tasks == prec[i].val
         IN  IF task \in Range(dependent_tasks)
             THEN [selfdep |-> TRUE, dependencies |-> dependencies]
             ELSE LET d1 == IF HasKey(dependencies, task) THEN dependencies
                            ELSE Put(dependencies, task, {})
                  IN  BuildDependencies(prec, i + 1,
                          AddDependents(d1, task, dependent_tasks, 1))

\* __dfs_cycle_check, and the loop over dependencies[task_name] inside it
\* (DfsDependents; `todo` are the dependents still to look at, taken in
\* ascending order).  The result is the returned boolean with the sets
\* `visited` and `stack` as the call leaves them.
RECURSIVE DfsCycleCheck(_, _, _, _)
RECURSIVE DfsDependents(_, _, _, _, _)
DfsDependents(task_name, todo, visited, stack, dependencies) ==
    IF todo = {}
    THEN [ret |-> FALSE, visited |-> visited, stack |-> stack \ {task_name}]
    ELSE LET dependent_task == Least(todo)
         IN  IF dependent_task \notin visited
             THEN LET r == DfsCycleCheck(dependent_task, visited, stack, dependencies)
                  IN  IF r.ret THEN r
                      ELSE DfsDependents(task_name, todo \ {dependent_task},
                                         r.visited, r.stack, dependencies)
             ELSE IF dependent_task \in stack
             THEN [ret |-> TRUE, visited |-> visited, stack |-> stack]
             ELSE DfsDependents(task_name, todo \ {dependent_task},
                                visited, stack, dependencies)

DfsCycleCheck(task_name, visited, stack, dependencies) ==
    DfsDependents(task_name, Get(dependencies, task_name),
                  visited \cup {task_name}, stack \cup {task_name}, dependencies)

\* CycleFrom with the search started from the first task only.
CycleFromFirstOnly(dependencies, i, visited, stack) ==
    /\ Len(dependencies) > 0
    /\ DfsCycleCheck(dependencies[1].key, visited, stack, dependencies).ret

\* The second part of __validate_precedence_dict: a depth-first search from
\* every task not visited yet, in the order of the dict `dependencies`.
RECURSIVE CycleFrom(_, _, _, _)
CycleFrom(dependencies, i, visited, stack) ==
    IF i > Len(dependencies) THEN FALSE
    ELSE LET task == dependencies[i].key
         IN  IF task \in visited THEN CycleFrom(dependencies, i + 1, visited, stack)
             ELSE LET r == DfsCycleCheck(task, visited, stack, dependencies)
                  IN  r.ret \/ CycleFrom(dependencies, i + 1, r.visited, r.stack)

\* __validate_precedence_dict: TRUE when it raises InvalidPrecedenceDictError.
ValidateRaises(prec) ==
    LET b == BuildDependencies(prec, 1, << >>)
    IN  b.selfdep \/ CycleFrom(b.dependencies, 1, {}, {})

\* TaskSystem(tsk, prec): the exception raised, or "ok" with self.tasks.
Constructor(tsk, prec) ==
    LET r == RegisterTasks(tsk, prec, 1, {}, << >>)
    IN  IF r.err # "ok" THEN [err |-> r.err, stasks |-> << >>]
        ELSE IF UnknownKey(prec, r.stasks)
             THEN [err |-> "TaskNotFoundError", stasks |-> << >>]
        ELSE IF ValidateRaises(prec)
             THEN [err |-> "InvalidPrecedenceDictError", stasks |-> << >>]
        ELSE [err |-> "ok", stasks |-> r.stasks]

-----------------------------------------------------------------------------
(* get_dependencies and the construction of the task queue.                *)

\* __r__get_dependencies (st holds the lists `dependencies` and `visited` the
\* call works on) and its loop over sub_dependencies.  len(None) raises
\* TypeError when task_name is no key of the precedence dict.
RECURSIVE RGetDependencies(_, _, _)
RECURSIVE RGetSubDependencies(_, _, _, _)

\* RGetSubDependencies with the loop run from the last sub-dependency to the
\* first.
RECURSIVE RGetSubDependenciesBackwards(_, _, _, _)
RGetSubDependenciesBackwards(prec, sub_dependencies, j, st) ==
    IF j > Len(sub_dependencies) THEN st
    ELSE RGetDependencies(prec, sub_dependencies[j],
             RGetSubDependenciesBackwards(prec, sub_dependencies, j + 1, st))

RGetSubDependencies(prec, sub_dependencies, j, st) ==
    IF st.err # "ok" \/ j > Len(sub_dependencies) THEN st
    ELSE RGetSubDependencies(prec, sub_dependencies, j + 1,
                             RGetDependencies(prec, sub_dependencies[j], st))

RGetDependencies(prec, task_name, st) ==
    IF st.err # "ok" \/ task_name \in st.visited THEN st
    ELSE IF ~HasKey(prec, task_name) THEN [st EXCEPT !.err = "TypeError"]
    ELSE LET sub_dependencies == Get(prec, task_name)
             r == IF Len(sub_dependencies) = 0 THEN st
                  ELSE RGetSubDependencies(prec, sub_dependencies, 1, st)
         IN  IF r.err # "ok" THEN r
             ELSE [err |-> "ok",
                   dependencies |-> Append(r.dependencies, task_name),
                   visited |-> r.visited \cup {task_name}]

\* GetDependencies that returns the list of the predecessors of the dict
\* entry, without their own dependencies.
GetDependenciesDirect(prec, task_name) ==
    IF HasKey(prec, task_name)
    THEN [err |-> "ok", deps |-> Get(prec, task_name)]
    ELSE [err |-> "TaskNotFoundError", deps |-> << >>]

\* GetDependencies that returns the dependencies last found first.
GetDependenciesReversed(prec, task_name) ==
    IF HasKey(prec, task_name)
    THEN LET r == RGetDependencies(prec, task_name,
                     [err |-> "ok", dependencies |-> << >>, visited |-> {}])
         IN  IF r.err # "ok" THEN [err |-> r.err, deps |-> << >>]
             ELSE [err |-> "ok",
                   deps |-> Reverse(SubSeq(r.dependencies, 1,
                                           Len(r.dependencies) - 1))]
    ELSE [err |-> "TaskNotFoundError", deps |-> << >>]

\* get_dependencies(task_name): the exception raised, or "ok" and the list.
GetDependencies(prec, task_name) ==
    IF HasKey(prec, task_name)
    THEN LET r == RGetDependencies(prec, task_name,
                     [err |-> "ok", dependencies |-> << >>, visited |-> {}])
         IN  IF r.err # "ok" THEN [err |-> r.err, deps |-> << >>]
             ELSE [err |-> "ok",
                   deps |-> SubSeq(r.dependencies, 1, Len(r.dependencies) - 1)]
    ELSE [err |-> "TaskNotFoundError", deps |-> << >>]

\* __r___get_tasks_queue (st holds `sequence` and `visited`) and its loop over
\* the dependencies.  The queue holds the tasks by name.
RECURSIVE RGetTasksQueue(_, _, _)
RECURSIVE RGetTasksQueueDeps(_, _, _, _)
RGetTasksQueueDeps(prec, dependencies, j, st) ==
    IF st.err # "ok" \/ j > Len(dependencies) THEN st
    ELSE RGetTasksQueueDeps(prec, dependencies, j + 1,
                            RGetTasksQueue(prec, dependencies[j], st))

RGetTasksQueue(prec, task_name, st) ==
    IF st.err # "ok" \/ task_name \in st.visited THEN st
    ELSE LET g == GetDependencies(prec, task_name)
         IN  IF g.err # "ok" THEN [st EXCEPT !.err = g.err]
             ELSE LET r == IF ~(Len(g.deps) = 0
                                \/ \A d \in Range(g.deps) : d \in st.visited)
                           THEN RGetTasksQueueDeps(prec, g.deps, 1, st)
                           ELSE st
                  IN  IF r.err # "ok" THEN r
                      ELSE [err |-> "ok",
                            sequence |-> Append(r.sequence, task_name),
                            visited |-> r.visited \cup {task_name}]

\* The loop `for task_name in self.tasks` that opens run_seq and run.
RECURSIVE TasksQueueFrom(_, _, _, _)
TasksQueueFrom(prec, stasks, i, st) ==
    IF st.err # "ok" \/ i > Len(stasks) THEN st
    ELSE TasksQueueFrom(prec, stasks, i + 1,
                        RGetTasksQueue(prec, stasks[i].key, st))

\* TasksQueue with the tasks queued in the order of self.tasks.
TasksQueueListOrder(prec, stasks) ==
    [err |-> "ok", sequence |-> [i \in 1..Len(stasks) |-> stasks[i].key],
     visited |-> Keys(stasks)]

TasksQueue(prec, stasks) ==
    TasksQueueFrom(prec, stasks, 1,
                   [err |-> "ok", sequence |-> << >>, visited |-> {}])

-----------------------------------------------------------------------------
(* Task actions.  A statement [dst, srcs, const, op] loads the globals of  *)
(* srcs one at a time and then stores op(loaded values, const) into dst.   *)

RECURSIVE Sum(_)
Sum(s) == IF s = << >> THEN 0 ELSE Head(s) + Sum(Tail(s))

RECURSIVE Product(_)
Product(s) == IF s = << >> THEN 1 ELSE Head(s) * Product(Tail(s))

\* The value a statement stores, given the values it loaded.
Eval(stmt, acc) ==
    IF stmt.op = "mul" THEN Product(acc) ELSE Sum(acc) + stmt.const

AllNames == Range(NameSeq)

Task(name) == Get(self_tasks, name)

IdleThread == [st |-> "idle", ip |-> 1, acc |-> << >>]

\* threading.Thread(target=task.run).start(), or the call task.run().
StartedThread == [st |-> "run", ip |-> 1, acc |-> << >>]

Running == {t \in AllNames : th[t].st = "run"}

\* The action of task t has executed its last statement.
Finished(t) == th[t].st = "dead" \/ (th[t].st = "run" /\ th[t].ip > Len(Task(t).run))

-----------------------------------------------------------------------------
(* The operations.                                                         *)

\* TaskSystem(tasks, precedence)
Construct ==
    /\ status = "new"
    /\ LET r == Constructor(tasks, precedence)
       IN  /\ status' = r.err
           /\ self_tasks' = r.stasks
    /\ UNCHANGED <<calls, failed, ret, tasks, precedence, mode, pc, queue, processes, executed,
                   th, started, mem>>

\* No call of get_dependencies was made yet.
NoCall == [op |-> "none", arg |-> "", err |-> "ok", val |-> << >>]

\* get_dependencies(task_name), called on the constructed TaskSystem: the
\* list it returns, or the exception it raises.
CallGetDependencies(task_name) ==
    /\ status = "ok"
    /\ LET g == GetDependencies(precedence, task_name)
       IN  ret' = [op |-> "get_dependencies", arg |-> task_name,
                   err |-> g.err, val |-> g.deps]
    /\ UNCHANGED <<calls, failed, tasks, precedence, status, self_tasks, mode,
                   pc, queue, processes, executed, th, started, mem>>

\* run_seq(), up to its while loop; an exception of the queue construction
\* leaves the call.
CallRunSeq ==
    /\ status = "ok" /\ pc = "idle"
    /\ mode' = "seq"
    /\ LET q == TasksQueue(precedence, self_tasks)
       IN  IF q.err # "ok"
           THEN pc' = "raised" /\ queue' = << >>
           ELSE pc' = "seq" /\ queue' = q.sequence
    /\ calls' = calls + 1
    /\ UNCHANGED <<failed, ret, tasks, precedence, status, self_tasks, processes, executed,
                   th, started, mem>>

\* One iteration of the while loop of run_seq: the call task.run() is entered
\* once the previous one has returned; the loop ends on the empty queue.
SeqNext ==
    /\ pc = "seq" /\ Running = {}
    /\ IF queue = << >>
       THEN pc' = "returned" /\ UNCHANGED <<queue, th, started>>
       ELSE /\ queue' = Tail(queue)
            /\ th' = [th EXCEPT ![Head(queue)] = StartedThread]
            /\ started' = [started EXCEPT ![Head(queue)] = @ + 1]
            /\ pc' = pc
    /\ UNCHANGED <<calls, failed, ret, tasks, precedence, status, self_tasks, mode, processes,
                   executed, mem>>

\* CallRun that goes on with the `processes` and `executed` it finds.
CallRunKeepsContext ==
    /\ status = "ok" /\ pc = "idle"
    /\ mode' = "par"
    /\ LET q == TasksQueue(precedence, self_tasks)
       IN  IF q.err # "ok"
           THEN pc' = "raised" /\ queue' = << >>
           ELSE /\ queue' = q.sequence
                /\ pc' = IF q.sequence = << >> THEN "join" ELSE "poll"
    /\ calls' = calls + 1
    /\ UNCHANGED <<failed, ret, tasks, precedence, status, self_tasks, th,
                   started, mem, processes, executed>>

\* run(), up to its while loop.
CallRun ==
    /\ status = "ok" /\ pc = "idle"
    /\ mode' = "par"
    /\ LET q == TasksQueue(precedence, self_tasks)
       IN  IF q.err # "ok"
           THEN pc' = "raised" /\ queue' = << >>
           ELSE /\ queue' = q.sequence
                /\ pc' = IF q.sequence = << >> THEN "join" ELSE "poll"
    /\ processes' = {} /\ executed' = {}
    /\ calls' = calls + 1
    /\ UNCHANGED <<failed, ret, tasks, precedence, status, self_tasks, th, started, mem>>

\* Conflict with the test of the second line of the condition left out.
ConflictReadsOnly(task, p) == task.reads \cap p.writes # {}

\* Conflict with a test of the written globals of the two tasks added.
ConflictWithWrites(task, p) ==
    \/ task.reads \cap p.writes # {}
    \/ task.writes \cap p.reads # {}
    \/ task.writes \cap p.writes # {}

\* The test of line 291, of the polled task against one running task.
Conflict(task, p) ==
    \/ task.reads \cap p.writes # {}
    \/ task.writes \cap p.reads # {}

\* NoRunningConflict of a loop that finds a conflict with any thread.
NoOtherThread(task, procs) == procs = {}

\* can_run_simultaneously as the loop over `processes` leaves it.
NoRunningConflict(task, procs) ==
    \A p \in procs : ~Conflict(task, Task(p))

\* DependenciesExecuted with the tasks still in `processes` counted as done.
DependenciesStarted(task, done) ==
    Range(GetDependencies(precedence, task.name).deps) \subseteq done \cup processes

\* set(self.get_dependencies(task.name)).issubset(executed)
DependenciesExecuted(task, done) ==
    Range(GetDependencies(precedence, task.name).deps) \subseteq done

CanRunSimultaneously(task, procs, done) ==
    NoRunningConflict(task, procs) /\ DependenciesExecuted(task, done)

\* Poll that does not put back the task it cannot start.
PollDropsBlocked ==
    /\ pc = "poll"
    /\ LET t == Head(queue)
       IN  IF CanRunSimultaneously(Task(t), processes, executed)
           THEN /\ th' = [th EXCEPT ![t] = StartedThread]
                /\ started' = [started EXCEPT ![t] = @ + 1]
                /\ processes' = processes \cup {t}
           ELSE UNCHANGED <<th, started, processes>>
    /\ queue' = Tail(queue)
    /\ pc' = "reap"
    /\ UNCHANGED <<calls, failed, ret, tasks, precedence, status, self_tasks, mode, executed, mem>>

\* First half of an iteration of the while loop of run: the task at the
\* front of the queue is started in a thread of its own or put back.
Poll ==
    /\ pc = "poll"
    /\ LET t == Head(queue)
       IN  IF CanRunSimultaneously(Task(t), processes, executed)
           THEN /\ th' = [th EXCEPT ![t] = StartedThread]
                /\ started' = [started EXCEPT ![t] = @ + 1]
                /\ processes' = processes \cup {t}
                /\ queue' = Tail(queue)
           ELSE /\ queue' = Append(Tail(queue), t)
                /\ UNCHANGED <<th, started, processes>>
    /\ pc' = "reap"
    /\ UNCHANGED <<calls, failed, ret, tasks, precedence, status, self_tasks, mode, executed, mem>>

\* Reap that forgets the tasks it takes out of `processes`.
ReapForgets ==
    /\ pc = "reap"
    /\ processes' = {t \in processes : th[t].st # "dead"}
    /\ pc' = IF queue = << >> THEN "join" ELSE "poll"
    /\ UNCHANGED <<calls, failed, ret, tasks, precedence, status, self_tasks, mode, queue, th,
                   started, mem, executed>>

\* Reap that leaves in `processes` the threads an exception ended.
ReapSkipsFailed ==
    /\ pc = "reap"
    /\ LET dead == {t \in processes : th[t].st = "dead" /\ t \notin failed}
       IN  /\ processes' = processes \ dead
           /\ executed' = executed \cup dead
    /\ pc' = IF queue = << >> THEN "join" ELSE "poll"
    /\ UNCHANGED <<calls, failed, ret, tasks, precedence, status, self_tasks, mode, queue, th,
                   started, mem>>

\* Reap without the test p.is_alive(): every thread of `processes` leaves it.
ReapAll ==
    /\ pc = "reap"
    /\ processes' = {}
    /\ executed' = executed \cup processes
    /\ pc' = IF queue = << >> THEN "join" ELSE "poll"
    /\ UNCHANGED <<calls, failed, ret, tasks, precedence, status, self_tasks, mode, queue, th,
                   started, mem>>

\* Reap that never finds a thread finished.
ReapNone ==
    /\ pc = "reap"
    /\ pc' = IF queue = << >> THEN "join" ELSE "poll"
    /\ UNCHANGED <<calls, failed, ret, tasks, precedence, status, self_tasks, mode, queue, th,
                   started, mem, processes, executed>>

\* Second half of the iteration: the threads that are no longer alive leave
\* `processes` and their tasks enter `executed`; then the loop test.
Reap ==
    /\ pc = "reap"
    /\ LET dead == {t \in processes : th[t].st = "dead"}
       IN  /\ processes' = processes \ dead
           /\ executed' = executed \cup dead
    /\ pc' = IF queue = << >> THEN "join" ELSE "poll"
    /\ UNCHANGED <<calls, failed, ret, tasks, precedence, status, self_tasks, mode, queue, th,
                   started, mem>>

\* Join without the wait.
JoinNoWait ==
    /\ pc = "join"
    /\ pc' = "returned"
    /\ UNCHANGED <<calls, failed, ret, tasks, precedence, status, self_tasks, mode, queue,
                   processes, executed, th, started, mem>>

\* The loop of p.join() that ends run: it returns once no thread is alive.
Join ==
    /\ pc = "join"
    /\ \A t \in processes : th[t].st = "dead"
    /\ pc' = "returned"
    /\ UNCHANGED <<calls, failed, ret, tasks, precedence, status, self_tasks, mode, queue,
                   processes, executed, th, started, mem>>

\* The call of run_seq / run is over (it returned, or the exception of an
\* action left it) and its caller is about to make another call, as par_cost
\* does: the threads of the call are gone, and so is what was counted for
\* it.  Nothing is done to the locals of the call that is over: the next
\* call makes its own.
Return ==
    /\ pc \in {"returned", "failed"}
    /\ calls < MaxCalls
    /\ pc' = "idle"
    /\ th' = [t \in AllNames |-> IdleThread]
    /\ started' = [t \in AllNames |-> 0]
    /\ failed' = {}
    /\ UNCHANGED <<calls, ret, tasks, precedence, status, self_tasks, mode, queue,
                   processes, executed, mem>>

\* The statement the action of task t is at raises an exception.
Raising(t) ==
    /\ th[t].ip <= Len(Task(t).run)
    /\ Task(t).run[th[t].ip].op = "raise"

\* ExceptionReaches of a run_seq that catches what task.run() raises.
ExceptionCaught(t) == FALSE

\* The exception the action of task t raises leaves the call in progress:
\* run_seq calls task.run() itself and catches nothing, while in run the
\* exception ends in the thread of the task.
ExceptionReaches(t) == Raising(t) /\ mode = "seq"

\* One step of the action of task t: a load of a global, a store into a
\* global, a raise, which ends the thread (the call), or, past the last
\* statement, the end of the thread (of the call).
Step(t) ==
    /\ th[t].st = "run"
    /\ LET prog == Task(t).run
           ip == th[t].ip
       IN  IF ip > Len(prog) \/ Raising(t)
           THEN /\ th' = [th EXCEPT ![t].st = "dead"]
                /\ mem' = mem
           ELSE IF Len(th[t].acc) < Len(prog[ip].srcs)
           THEN /\ th' = [th EXCEPT ![t].acc =
                               Append(@, mem[prog[ip].srcs[Len(@) + 1]])]
                /\ mem' = mem
           ELSE /\ mem' = [mem EXCEPT ![prog[ip].dst] = Eval(prog[ip], th[t].acc)]
                /\ th' = [th EXCEPT ![t].ip = @ + 1, ![t].acc = << >>]
    /\ failed' = IF Raising(t) THEN failed \cup {t} ELSE failed
    /\ pc' = IF ExceptionReaches(t) THEN "failed" ELSE pc
    /\ UNCHANGED <<calls, ret, tasks, precedence, status, self_tasks, mode, queue,
                   processes, executed, started>>

TaskStep == \E t \in AllNames : Step(t)

-----------------------------------------------------------------------------
(* The task systems the model is run on.                                   *)

VarSeq == <<"X", "Y", "Z">>

SeqOfVars(S) == SelectSeq(VarSeq, LAMBDA v : v \in S)

\* An action that touches exactly the declared globals: every written global
\* receives the sum of the read ones plus a number proper to the task.
RunOf(name, reads, writes) ==
    [j \in 1..Len(SeqOfVars(writes)) |->
        [dst |-> SeqOfVars(writes)[j], srcs |-> SeqOfVars(reads),
         const |-> Idx(name), op |-> "add"]]

\* A task whose action only takes time (run holds no statement).
MkTask(name, prof) ==
    [name |-> name, reads |-> prof.reads, writes |-> prof.writes, run |-> << >>]

\* A task whose action is RunOf.
MkValueTask(name, prof) ==
    [name |-> name, reads |-> prof.reads, writes |-> prof.writes,
     run |-> RunOf(name, prof.reads, prof.writes)]

\* Declared read and write sets: a writer of X and a reader of X.
Profiles ==
    { [reads |-> {},    writes |-> {"X"}],
      [reads |-> {"X"}, writes |-> {"Y"}] }

\* The sets of at most k elements of P.
RECURSIVE SubsetsUpTo(_, _)
SubsetsUpTo(k, P) ==
    IF k = 0 THEN {{}}
    ELSE LET S == SubsetsUpTo(k - 1, P)
         IN  S \cup {s \cup {e} : s \in S, e \in P}

\* The predecessor entries <<task, predecessor>> of the generated systems:
\* at most MaxEdges, each may name the task itself or a name that is no task.
EdgeSets == SubsetsUpTo(MaxEdges, Names \X (Names \cup {Ghost}))

\* The precedence dict with the given keys (in this order) whose lists hold
\* the predecessors E gives each key, ascending or (rev) descending.
MkPrecedence(keys, E, rev) ==
    [i \in 1..Len(keys) |->
        [key |-> keys[i],
         val |-> LET l == Ascending({e[2] : e \in {x \in E : x[1] = keys[i]}})
                 IN  IF rev THEN Reverse(l) ELSE l]]

Fresh ==
    /\ status = "new" /\ self_tasks = << >>
    /\ mode = "none" /\ pc = "idle"
    /\ queue = << >> /\ processes = {} /\ executed = {}
    /\ th = [t \in AllNames |-> IdleThread]
    /\ started = [t \in AllNames |-> 0]
    /\ mem = [v \in GlobalVars |-> 0]
    /\ ret = NoCall
    /\ failed = {} /\ calls = 0

\* Every task of Names once, in the order T1, T2, ..., each with one of the
\* profiles and an entry in the dict; the predecessor entries are any set of
\* EdgeSets, so a task may be listed before or after its predecessors; each
\* list of predecessors is ascending or (rev) descending.
Init ==
    /\ \E E \in EdgeSets, rev \in BOOLEAN, prof \in [Names -> Profiles] :
          /\ tasks = [i \in 1..MaxTasks |-> MkTask(NameSeq[i], prof[NameSeq[i]])]
          /\ precedence = MkPrecedence(Ascending(Names), E, rev)
    /\ Fresh

Next ==
    \/ Construct
    \/ CallRunSeq
    \/ SeqNext
    \/ CallRun
    \/ Poll
    \/ Reap
    \/ Join
    \/ TaskStep

Spec == Init /\ [][Next]_vars

\* The valid task systems of Init up to a renaming of the tasks: the queue
\* run() builds is T1, T2, ..., every predecessor coming earlier in the list.
InitLive ==
    /\ \E prof \in [Names -> Profiles],
          E \in SubsetsUpTo(MaxEdges,
                   {p \in Names \X Names : Idx(p[2]) < Idx(p[1])}) :
          /\ tasks = [i \in 1..MaxTasks |-> MkTask(NameSeq[i], prof[NameSeq[i]])]
          /\ precedence = MkPrecedence(Ascending(Names), E, FALSE)
    /\ Fresh

\* The scheduler loop of run() keeps running and join() returns when it can;
\* a thread that can take a step is not held back for ever (every action ends
\* after finitely many steps).
Fairness ==
    /\ WF_vars(Poll \/ Reap \/ Join)
    /\ WF_vars(TaskStep)

SpecLive == InitLive /\ [][Next]_vars /\ Fairness

\* A statement that raises an exception.
RaiseStmt == [dst |-> "X", srcs |-> << >>, const |-> 0, op |-> "raise"]

\* A task whose action raises an exception (fails), or only takes time.
MkFailingTask(name, prof, fails) ==
    [name |-> name, reads |-> prof.reads, writes |-> prof.writes,
     run |-> IF fails THEN <<RaiseStmt>> ELSE << >>]

\* The task systems of InitLive where the actions of any of the tasks fail.
InitFail ==
    /\ \E prof \in [Names -> Profiles], bad \in SUBSET Names,
          E \in SubsetsUpTo(MaxEdges,
                   {p \in Names \X Names : Idx(p[2]) < Idx(p[1])}) :
          /\ tasks = [i \in 1..MaxTasks |->
                         MkFailingTask(NameSeq[i], prof[NameSeq[i]],
                                       NameSeq[i] \in bad)]
          /\ precedence = MkPrecedence(Ascending(Names), E, FALSE)
    /\ Fresh

SpecFail == InitFail /\ [][Next]_vars /\ Fairness

\* The task systems of InitFail where the action of one task at most fails.
InitAgain ==
    /\ \E prof \in [Names -> Profiles], bad \in SubsetsUpTo(1, Names),
          E \in SubsetsUpTo(MaxEdges,
                   {p \in Names \X Names : Idx(p[2]) < Idx(p[1])}) :
          /\ tasks = [i \in 1..MaxTasks |->
                         MkFailingTask(NameSeq[i], prof[NameSeq[i]],
                                       NameSeq[i] \in bad)]
          /\ precedence = MkPrecedence(Ascending(Names), E, FALSE)
    /\ Fresh

\* Calls of run_seq / run made one after the other.
NextAgain == Next \/ Return

SpecAgain == InitAgain /\ [][NextAgain]_vars

\* The profiles and a writer of Z, which shares no global with them.
WideProfiles == Profiles \cup { [reads |-> {}, writes |-> {"Z"}] }

\* The task systems of InitLive with the tasks given any of WideProfiles.
InitPar ==
    /\ \E prof \in [Names -> WideProfiles],
          E \in SubsetsUpTo(MaxEdges,
                   {p \in Names \X Names : Idx(p[2]) < Idx(p[1])}) :
          /\ tasks = [i \in 1..MaxTasks |-> MkTask(NameSeq[i], prof[NameSeq[i]])]
          /\ precedence = MkPrecedence(Ascending(Names), E, FALSE)
    /\ Fresh

SpecPar == InitPar /\ [][Next]_vars

\* The task systems of Init with the actions RunOf gives the tasks.
InitValues ==
    /\ \E E \in EdgeSets, rev \in BOOLEAN, prof \in [Names -> Profiles] :
          /\ tasks = [i \in 1..MaxTasks |->
                        MkValueTask(NameSeq[i], prof[NameSeq[i]])]
          /\ precedence = MkPrecedence(Ascending(Names), E, rev)
    /\ Fresh

SpecValues == InitValues /\ [][Next]_vars

\* The six tasks of the tests (and of main.py) with their actions:
\* X = 5; Y = 3; X *= X, Y *= Y; Z = 10; Z += X + Y; Z += 5.
ScenarioTask ==
    [n \in AllNames |->
       CASE n = "T1" -> [name |-> n, reads |-> {}, writes |-> {"X"},
                run |-> <<[dst |-> "X", srcs |-> << >>, const |-> 5, op |-> "add"]>>]
         [] n = "T2" -> [name |-> n, reads |-> {}, writes |-> {"Y"},
                run |-> <<[dst |-> "Y", srcs |-> << >>, const |-> 3, op |-> "add"]>>]
         [] n = "T3" -> [name |-> n, reads |-> {"X", "Y"}, writes |-> {"Y", "X"},
                run |-> <<[dst |-> "X", srcs |-> <<"X", "X">>, const |-> 0, op |-> "mul"],
                          [dst |-> "Y", srcs |-> <<"Y", "Y">>, const |-> 0, op |-> "mul"]>>]
         [] n = "T4" -> [name |-> n, reads |-> {}, writes |-> {"Z"},
                run |-> <<[dst |-> "Z", srcs |-> << >>, const |-> 10, op |-> "add"]>>]
         [] n = "T5" -> [name |-> n, reads |-> {"X", "Y", "Z"}, writes |-> {"Z"},
                run |-> <<[dst |-> "Z", srcs |-> <<"Z", "X", "Y">>, const |-> 0,
                           op |-> "add"]>>]
         [] OTHER    -> [name |-> n, reads |-> {"Z"}, writes |-> {"Z"},
                run |-> <<[dst |-> "Z", srcs |-> <<"Z">>, const |-> 5, op |-> "add"]>>]]

\* The precedence graph of the scenario, with the keys in the given order.
ScenarioPrecedence(keys) ==
    [i \in 1..Len(keys) |->
       [key |-> keys[i],
        val |-> CASE keys[i] = "T3" -> <<"T1", "T2">>
                  [] keys[i] = "T5" -> <<"T3", "T4">>
                  [] keys[i] = "T6" -> <<"T5">>
                  [] OTHER -> << >>]]

Permutations(S) == {f \in [1..Cardinality(S) -> S] : Range(f) = S}

MainOrder == <<"T5", "T3", "T6", "T4", "T2", "T1">>

\* The scenario as the tests build it, with the task list in any order, and
\* as main.py builds it.
InitScenario ==
    /\ \/ /\ tasks \in {[i \in 1..Len(f) |-> ScenarioTask[f[i]]] :
                            f \in Permutations(AllNames)}
          /\ precedence = ScenarioPrecedence(NameSeq)
       \/ /\ tasks = [i \in 1..Len(MainOrder) |-> ScenarioTask[MainOrder[i]]]
          /\ precedence = ScenarioPrecedence(<<"T1", "T2", "T4", "T3", "T5", "T6">>)
    /\ Fresh

SpecScenario == InitScenario /\ [][Next]_vars

-----------------------------------------------------------------------------
(* Construction alone, on well-formed and on malformed arguments.          *)

NoProfile == [reads |-> {}, writes |-> {}]

SeqsUpTo(k, S) == UNION {[1..m -> S] : m \in 0..k}

\* Any list of at most MaxListLen tasks (names may repeat), a dict whose keys
\* are any set of names (tasks may lack an entry, keys may name no task) and
\* which holds at most one predecessor entry.
ListInputs ==
    { [tasks |-> [i \in 1..Len(l) |-> MkTask(l[i], NoProfile)],
       precedence |-> MkPrecedence(Ascending(x[1]), x[2], FALSE)] :
         l \in SeqsUpTo(MaxListLen, Names),
         x \in UNION {{<<K, E>> : E \in SubsetsUpTo(1, K \X (Names \cup {Ghost}))} :
                         K \in SUBSET Names} }

\* Every task of Names once and an entry for each (the dict ascending or
\* descending), with at most MaxConsEdges predecessor entries.
GraphInputs ==
    { [tasks |-> [i \in 1..MaxTasks |-> MkTask(NameSeq[i], NoProfile)],
       precedence |-> MkPrecedence(IF rev THEN Reverse(Ascending(Names))
                                   ELSE Ascending(Names), E, rev)] :
         E \in SubsetsUpTo(MaxConsEdges, Names \X (Names \cup {Ghost})),
         rev \in BOOLEAN }

InitCons ==
    /\ \E in \in ListInputs \cup GraphInputs :
          tasks = in.tasks /\ precedence = in.precedence
    /\ Fresh

NextCons == Construct

SpecCons == InitCons /\ [][NextCons]_vars

\* Construction followed by calls of get_dependencies, with the name of any
\* task of Names or a name that is no task.
NextDeps ==
    \/ Construct
    \/ \E task_name \in Names \cup {Ghost} : CallGetDependencies(task_name)

SpecDeps == InitCons /\ [][NextDeps]_vars

-----------------------------------------------------------------------------
(* Notions the properties are stated with.                                 *)

\* The names of the tasks of the list given to the constructor.
ListedNames == {tasks[i].name : i \in 1..Len(tasks)}

UniqueNames == \A i, j \in 1..Len(tasks) : tasks[i].name = tasks[j].name => i = j

\* The predecessor relation: <<n, p>> when p is listed as a predecessor of n.
PredRel == UNION {{<<precedence[i].key, p>> : p \in Range(precedence[i].val)} :
                    i \in 1..Len(precedence)}

\* Transitive closure of a relation.
RECURSIVE Closure(_)
Closure(R) ==
    LET R2 == R \cup {<<p[1][1], p[2][2]>> : p \in {q \in R \X R : q[1][2] = q[2][1]}}
    IN  IF R2 = R THEN R ELSE Closure(R2)

\* The predecessor relation holds a cycle (of any length).
Cyclic == \E x \in Closure(PredRel) : x[1] = x[2]

\* The transitive dependency set of task n.
TransDeps(n) == {p[2] : p \in {q \in Closure(PredRel) : q[1] = n}}

\* Some predecessor named in the dict is not the name of a listed task.
UnknownPredecessor == \E x \in PredRel : x[2] \notin ListedNames

\* The arguments are well formed but for the predecessor relation: no name
\* repeats in the task list and the keys of the dict are the listed names.
WellFormedList == UniqueNames /\ Keys(precedence) = ListedNames

-----------------------------------------------------------------------------
(* Construction (SpecCons).                                                *)

\* C8: for a task list with unique names and a dict whose keys are exactly
\* the listed names, construction raises InvalidPrecedenceDictError whenever
\* the predecessor relation holds a cycle (a self-dependency, a longer cycle,
\* a cycle apart from the other tasks), and succeeds whenever the relation is
\* acyclic and every predecessor is a listed task.
C8_CycleRejected ==
    (status # "new" /\ WellFormedList) =>
        /\ Cyclic => status = "InvalidPrecedenceDictError"
        /\ (~Cyclic /\ ~UnknownPredecessor) => status = "ok"

\* A cycle T2 -> T3 -> T2 apart from T1, which the search visits first, with
\* no self-dependency, was rejected.
C8_Witness ==
    /\ status = "InvalidPrecedenceDictError" /\ WellFormedList
    /\ PredRel = {<<"T2", "T3">>, <<"T3", "T2">>}
    /\ precedence[1].key = "T1"

\* C9: construction raises TaskNotFoundError whenever a predecessor named in
\* the dict is not a listed task (stated for arguments that are otherwise
\* well formed, where no other exception can come first), so that a
\* constructed TaskSystem names only listed tasks as predecessors.
C9_UnknownPredecessorRejected ==
    /\ (status # "new" /\ WellFormedList /\ UnknownPredecessor)
           => status = "TaskNotFoundError"
    /\ status = "ok" => ~UnknownPredecessor

\* C10: with unique names and an entry for every listed task, construction
\* raises TaskNotFoundError whenever some key of the dict is not the name of
\* a listed task.
C10_UnknownKeyRejected ==
    (/\ status # "new" /\ UniqueNames
     /\ ListedNames \subseteq Keys(precedence)
     /\ Keys(precedence) \ ListedNames # {})
        => status = "TaskNotFoundError"

\* A dict with a key that names no listed task was rejected, the key coming
\* after the key of a listed task, whose entry is a self-dependency.
C10_Witness ==
    /\ status = "TaskNotFoundError" /\ UniqueNames
    /\ ListedNames = {"T1"} /\ Keys(precedence) = {"T1", "T2"}
    /\ PredRel = {<<"T1", "T1">>}

\* C11: with no name repeated in the task list, construction raises
\* NoTaskPrecedenceError whenever some listed task has no entry in the dict;
\* and it raises NoTaskPrecedenceError only when some listed task has no
\* entry: an entry that is an empty list is an entry.
C11_MissingPrecedenceRejected ==
    status # "new" =>
        /\ (UniqueNames /\ ~(ListedNames \subseteq Keys(precedence)))
               => status = "NoTaskPrecedenceError"
        /\ status = "NoTaskPrecedenceError"
               => ~(ListedNames \subseteq Keys(precedence))

\* Three tasks, the last one alone without an entry, the two others with an
\* entry of which one is the empty list: NoTaskPrecedenceError was raised.
C11_Witness ==
    /\ status = "NoTaskPrecedenceError" /\ UniqueNames /\ Len(tasks) = 3
    /\ ListedNames \ Keys(precedence) = {tasks[3].name}
    /\ \E i \in 1..Len(precedence) : precedence[i].val = << >>

\* C12: when every listed task has an entry in the dict, construction raises
\* DuplicateTaskError whenever two entries of the task list carry the same
\* name; a constructed TaskSystem holds every listed task once, under a name
\* of its own.
C12_DuplicateRejected ==
    /\ (status # "new" /\ ListedNames \subseteq Keys(precedence) /\ ~UniqueNames)
           => status = "DuplicateTaskError"
    /\ status = "ok" =>
           /\ UniqueNames
           /\ Len(self_tasks) = Len(tasks)
           /\ \A i, j \in 1..Len(self_tasks) :
                  self_tasks[i].key = self_tasks[j].key => i = j

\* The first and the third task of the list carry the same name, the second
\* another one: DuplicateTaskError was raised.
C12_Witness ==
    /\ status = "DuplicateTaskError" /\ Len(tasks) = 3
    /\ tasks[1].name = tasks[3].name /\ tasks[2].name # tasks[1].name
    /\ ListedNames \subseteq Keys(precedence)

\* C19: when the task list holds both a task without an entry in the dict
\* and a repeated name, construction raises NoTaskPrecedenceError, wherever
\* the two stand in the list.
C19_MissingBeforeDuplicate ==
    (status # "new" /\ ~UniqueNames /\ ~(ListedNames \subseteq Keys(precedence)))
        => status = "NoTaskPrecedenceError"

-----------------------------------------------------------------------------
(* get_dependencies (SpecDeps).                                            *)

\* The last call of get_dependencies returned a list.
Returned == ret.op = "get_dependencies" /\ ret.err = "ok"

\* C13: on a constructed system all of whose predecessors are listed tasks,
\* get_dependencies(n) of a listed task n returns a list that holds exactly
\* the transitive predecessors of n, each once, and not n; the list is empty
\* when n has no predecessor.
C13_ExactlyTransitivePredecessors ==
    (ret.op = "get_dependencies" /\ ~UnknownPredecessor /\ ret.arg \in ListedNames)
        => /\ ret.err = "ok"
           /\ Range(ret.val) = TransDeps(ret.arg)
           /\ \A i, j \in 1..Len(ret.val) : ret.val[i] = ret.val[j] => i = j
           /\ ret.arg \notin Range(ret.val)
           /\ Get(precedence, ret.arg) = << >> => ret.val = << >>

\* T3 lists T2 and then T1, and T2 lists T1: T1, an ancestor reached twice,
\* is returned once.
C13_Witness ==
    /\ Returned /\ ret.arg = "T3" /\ ret.val = <<"T1", "T2">>
    /\ Get(precedence, "T3") = <<"T2", "T1">>
    /\ PredRel = {<<"T3", "T2">>, <<"T3", "T1">>, <<"T2", "T1">>}

\* C14: in a list get_dependencies returns, no task stands before a task it
\* depends on (transitively), and every task stands after all of its own
\* transitive predecessors.
C14_DependencyConsistentOrder ==
    Returned =>
        /\ \A i, j \in 1..Len(ret.val) :
              i < j => <<ret.val[i], ret.val[j]>> \notin Closure(PredRel)
        /\ \A j \in 1..Len(ret.val) :
              \A d \in TransDeps(ret.val[j]) :
                  \E i \in 1..(j - 1) : ret.val[i] = d

\* T1 depends on T3 and T3 on T2: the call for T1 returned T2 before T3.
C14_Witness ==
    /\ Returned /\ ret.arg = "T1" /\ ret.val = <<"T2", "T3">>
    /\ PredRel = {<<"T1", "T3">>, <<"T3", "T2">>}

\* C15: get_dependencies(name) raises TaskNotFoundError for every name that
\* is not a registered task of the constructed system, and returns a list
\* for every registered name.
C15_UnknownNameRejected ==
    ret.op = "get_dependencies" =>
        IF ret.arg \in Keys(self_tasks)
        THEN ret.err = "ok"
        ELSE ret.err = "TaskNotFoundError"

\* The list s without the elements that occur earlier in it.
RECURSIVE Dedup(_)
Dedup(s) ==
    IF s = << >> THEN << >>
    ELSE LET front == Dedup(SubSeq(s, 1, Len(s) - 1))
         IN  IF s[Len(s)] \in Range(front) THEN front
             ELSE Append(front, s[Len(s)])

\* The resolved order of task n: the resolved orders of its predecessors,
\* in the order the dict lists them, one after the other, every task kept
\* where it first comes, and then n.
RECURSIVE ResolvedOrder(_)
RECURSIVE ResolvedOrders(_, _)
ResolvedOrders(l, k) ==
    IF k = 0 THEN << >> ELSE ResolvedOrders(l, k - 1) \o ResolvedOrder(l[k])

ResolvedOrder(n) ==
    LET l == Get(precedence, n)
    IN  Append(Dedup(ResolvedOrders(l, Len(l))), n)

\* C20: the list get_dependencies(n) returns is the resolved order of n
\* without n, its last element.
C20_DepthFirstPostOrder ==
    Returned =>
        ret.val = SubSeq(ResolvedOrder(ret.arg), 1, Len(ResolvedOrder(ret.arg)) - 1)

\* T3 lists T2 before T1, which have no predecessors: T2 is returned first.
C20_Witness ==
    /\ Returned /\ ret.arg = "T3" /\ ret.val = <<"T2", "T1">>
    /\ PredRel = {<<"T3", "T2">>, <<"T3", "T1">>}

-----------------------------------------------------------------------------
(* The two runs, on the generated task systems (Spec).                     *)

\* Tasks a and b touch a global one of them writes and the other reads.
ReadWriteOverlap(a, b) ==
    \/ Task(a).reads \cap Task(b).writes # {}
    \/ Task(a).writes \cap Task(b).reads # {}

\* C1: during run(), no two tasks whose threads are running at the same time
\* have a read/write or write/read overlap of their declared sets.
C1_NoConflictingTasksRunTogether ==
    mode = "par" =>
        \A a \in Running : \A b \in Running \ {a} : ~ReadWriteOverlap(a, b)

\* Two tasks run together while a third, never started, all of whose
\* dependencies are executed, overlaps with one of them and was put back at
\* the end of the queue.
C1_Witness ==
    /\ mode = "par" /\ pc = "reap" /\ Cardinality(Running) >= 2
    /\ queue # << >>
    /\ LET b == queue[Len(queue)]
       IN  /\ started[b] = 0
           /\ TransDeps(b) \subseteq executed
           /\ \E a \in Running : ReadWriteOverlap(a, b)

\* C2: during run(), the action of a task is started only when the action of
\* every task of its transitive dependency set has finished and the task is
\* in the set `executed`.
C2_StartedAfterDependencies ==
    mode = "par" =>
        \A t \in AllNames : started[t] > 0 =>
            \A d \in TransDeps(t) : th[d].st = "dead" /\ d \in executed

\* A task was started that has a dependency it does not list itself.
C2_Witness ==
    /\ mode = "par"
    /\ \E t \in AllNames : /\ started[t] > 0
                            /\ \E d \in TransDeps(t) : <<t, d>> \notin PredRel

\* C3: one call of run() starts the action of no task twice, and when it
\* returns the action of every registered task has been started exactly once
\* and has finished.
C3_EveryTaskOnceAndFinished ==
    mode = "par" =>
        /\ \A t \in AllNames : started[t] <= 1
        /\ pc = "returned" =>
              \A t \in AllNames :
                  IF t \in ListedNames
                  THEN started[t] = 1 /\ th[t].st = "dead"
                  ELSE started[t] = 0

\* run() returned after a wait in join() for tasks that were never reaped.
C3_Witness ==
    /\ mode = "par" /\ pc = "returned"
    /\ processes # {} /\ PredRel # {}

\* C4: run_seq() has at most one action running at a time, starts no action
\* twice, starts an action only when every task of its transitive dependency
\* set has run to its end, and when it returns every registered task has run
\* exactly once; this for tasks listed before or after their predecessors.
C4_SequentialOrder ==
    mode = "seq" =>
        /\ Cardinality(Running) <= 1
        /\ \A t \in AllNames :
              /\ started[t] <= 1
              /\ started[t] > 0 => \A d \in TransDeps(t) : th[d].st = "dead"
        /\ pc = "returned" =>
              \A t \in AllNames :
                  IF t \in ListedNames
                  THEN started[t] = 1 /\ th[t].st = "dead"
                  ELSE started[t] = 0

\* run_seq() returned for the list T1, T2, T3 where T1 depends on T3 and T3
\* on T2.
C4_Witness ==
    /\ mode = "seq" /\ pc = "returned"
    /\ PredRel = {<<"T1", "T3">>, <<"T3", "T2">>}

\* C7: once run() is in its loop, under the fairness of SpecLive (started
\* actions end, the loop keeps running), run() returns, every registered
\* task having been started.
C7_RunReturns ==
    (mode = "par" /\ pc = "poll")
        ~> (pc = "returned" /\ \A t \in ListedNames : started[t] = 1)

\* The loop polls a task it cannot start yet, with no thread running: the
\* finished threads are still to be reaped.
C7_Witness ==
    /\ mode = "par" /\ pc = "poll" /\ Running = {} /\ processes # {}
    /\ ~CanRunSimultaneously(Task(Head(queue)), processes, executed)

-----------------------------------------------------------------------------
(* The scheduling of run(), step by step (SpecPar).                        *)

\* Tasks a and b declare no global in common.
Disjoint(a, b) ==
    (Task(a).reads \cup Task(a).writes) \cap (Task(b).reads \cup Task(b).writes) = {}

\* Tasks a and b declare a common written global.
WriteWriteOverlap(a, b) == Task(a).writes \cap Task(b).writes # {}

\* C16: run() does not serialize ready tasks with disjoint read/write sets:
\* when the loop polls a task all of whose dependencies are executed and
\* which shares no global with any task of `processes`, the task is started
\* in that iteration, and is then running together with every task that was
\* running; a state with two such tasks running together is reached.
C16_DisjointTasksRunTogether ==
    [][(/\ mode = "par" /\ pc = "poll" /\ pc' = "reap"
        /\ TransDeps(Head(queue)) \subseteq executed
        /\ \A x \in processes : Disjoint(x, Head(queue)))
          => \A a \in Running \cup {Head(queue)} : th'[a].st = "run"]_vars

\* Two tasks that declare no global in common are running at the same time.
C16_Witness ==
    /\ mode = "par"
    /\ \E a \in Running : \E b \in Running \ {a} : Disjoint(a, b)

\* C17: run() takes two tasks that write the same global, neither reading
\* what the other writes, for tasks that do not conflict: when the loop polls
\* a task all of whose dependencies are executed and which has no read/write
\* overlap with any task of `processes`, a running task that writes a global
\* the polled task writes does not keep it from being started, and the two
\* are then running together.
C17_WriteWriteNotAConflict ==
    [][(/\ mode = "par" /\ pc = "poll" /\ pc' = "reap"
        /\ TransDeps(Head(queue)) \subseteq executed
        /\ \A x \in processes : ~ReadWriteOverlap(x, Head(queue)))
          => \A a \in Running :
                 WriteWriteOverlap(a, Head(queue))
                     => th'[a].st = "run" /\ th'[Head(queue)].st = "run"]_vars

\* Two tasks with no dependency between them, which write a common global
\* and do not read what the other writes, are running at the same time.
C17_Witness ==
    /\ mode = "par"
    /\ \E a \in Running : \E b \in Running \ {a} :
          /\ WriteWriteOverlap(a, b) /\ ~ReadWriteOverlap(a, b)
          /\ <<a, b>> \notin Closure(PredRel) /\ <<b, a>> \notin Closure(PredRel)

\* C18: an iteration of the loop of run() starts the task it takes from the
\* front of the queue if and only if all the transitive dependencies of the
\* task are in `executed` and the task has no read/write overlap with a task
\* of `processes`; otherwise it puts the task back at the end of the queue,
\* a step that leaves `processes`, `executed`, the threads and the order of
\* the other queued tasks as they were.
C18_PolledTaskStartedOrPutBack ==
    [][(mode = "par" /\ pc = "poll" /\ pc' = "reap") =>
         LET t == Head(queue)
         IN  IF /\ TransDeps(t) \subseteq executed
                /\ \A p \in processes : ~ReadWriteOverlap(t, p)
             THEN /\ th[t].st = "idle" /\ th'[t].st = "run"
                  /\ started'[t] = started[t] + 1
                  /\ queue' = Tail(queue)
                  /\ processes' = processes \cup {t}
                  /\ executed' = executed
             ELSE /\ queue' = Append(Tail(queue), t)
                  /\ processes' = processes /\ executed' = executed
                  /\ th' = th /\ started' = started]_vars

\* T1 was started and T2, polled next, was put back behind T3, which is
\* still to be polled.
C18_Witness ==
    /\ mode = "par" /\ pc = "reap"
    /\ queue = <<"T3", "T2">> /\ processes = {"T1"} /\ executed = {}
    /\ started = [t \in AllNames |-> IF t = "T1" THEN 1 ELSE 0]

\* C23: whenever the loop of run() is about to take a task from the queue or
\* has just ended, the queue, `processes` and `executed` hold every
\* registered task exactly once between them (no task twice in the queue,
\* no task in two of them); during a call `executed` never loses a task, and
\* it holds only tasks whose action has finished.
C23_QueueRunningCompletedPartition ==
    /\ [](mode = "par" =>
            /\ pc \in {"poll", "join"} =>
                  /\ \A i, j \in 1..Len(queue) : queue[i] = queue[j] => i = j
                  /\ Range(queue) \cap processes = {}
                  /\ Range(queue) \cap executed = {}
                  /\ processes \cap executed = {}
                  /\ Range(queue) \cup processes \cup executed = Keys(self_tasks)
            /\ \A t \in executed : th[t].st = "dead")
    /\ [][(mode = "par" /\ calls' = calls) => executed \subseteq executed']_vars

\* The loop is about to poll a task while another task is in `processes`
\* and a third in `executed`.
C23_Witness ==
    /\ mode = "par" /\ pc = "poll"
    /\ queue # << >> /\ processes # {} /\ executed # {}

-----------------------------------------------------------------------------
(* Task actions that fail (SpecFail).                                      *)

\* C21: when the action of a task fails during run_seq(), the exception
\* leaves run_seq() at once (it is not caught: the call is over, and does not
\* return normally), the failed action was invoked exactly once and is the
\* only one that failed, and none of the tasks still in the queue, which are
\* the tasks after it in the execution order, has been or will be executed.
C21_SequentialFailurePropagates ==
    mode = "seq" =>
        /\ failed # {} <=> pc = "failed"
        /\ pc = "failed" =>
              /\ Running = {}
              /\ Cardinality(failed) = 1
              /\ \A t \in failed : started[t] = 1
              /\ \A i \in 1..Len(queue) : started[queue[i]] = 0
              /\ ~ENABLED SeqNext
        /\ \A t \in AllNames : started[t] <= 1

\* The action of T2 failed in run_seq() after T1 was executed; T3 is left in
\* the queue.
C21_Witness ==
    /\ mode = "seq" /\ pc = "failed" /\ failed = {"T2"}
    /\ started["T1"] = 1 /\ th["T1"].st = "dead"
    /\ queue = <<"T3">> /\ started["T3"] = 0

\* C22: when the action of a task fails during run(), run() does not report
\* it; the loop reaps the thread of the task as it reaps a finished one (the
\* task leaves `processes` and enters `executed` at the first reap that
\* finds the thread ended); and run() goes on: every task is started, the
\* dependents of the failed task included, and run() returns normally.
C22_ParallelFailureIgnored ==
    /\ [](mode = "par" => pc # "failed")
    /\ [][(mode = "par" /\ pc = "reap" /\ pc' # "reap") =>
            \A t \in processes \cap failed :
                th[t].st = "dead" => t \notin processes' /\ t \in executed']_vars
    /\ (mode = "par" /\ failed # {})
          ~> (/\ pc = "returned"
              /\ \A t \in ListedNames : started[t] = 1 /\ th[t].st = "dead")

\* run() returned although the action of T1 failed; T2, which depends on
\* T1, was started after T1 had entered `executed`.
C22_Witness ==
    /\ mode = "par" /\ pc = "returned" /\ "T1" \in failed \cap executed
    /\ <<"T2", "T1">> \in PredRel /\ started["T2"] = 1

-----------------------------------------------------------------------------
(* Calls made one after the other (SpecAgain).                             *)

\* C24: a call of run_seq() or run() made after other calls on the same
\* TaskSystem behaves as a first call does: no two tasks with a read/write
\* overlap run together, a task is started only after its transitive
\* dependencies have finished and entered `executed` in this call, every
\* task is started exactly once, and `processes` and `executed` hold only
\* tasks started in this call.
C24_RunContextPerCall ==
    (calls >= 2 /\ pc # "idle") =>
        /\ C1_NoConflictingTasksRunTogether
        /\ C2_StartedAfterDependencies
        /\ C3_EveryTaskOnceAndFinished
        /\ C4_SequentialOrder
        /\ mode = "par" => \A t \in processes \cup executed : started[t] = 1

\* A second call, of run(), returned, with tasks it reaped and tasks it
\* only joined.
C24_Witness ==
    /\ calls = 2 /\ mode = "par" /\ pc = "returned"
    /\ PredRel # {} /\ executed # {} /\ processes # {}
    /\ \A t \in ListedNames : started[t] = 1

-----------------------------------------------------------------------------
(* Final values (SpecValues, SpecScenario).                                *)

\* The globals after statement stmt executed alone on m.
ExecStmt(stmt, m) ==
    [m EXCEPT ![stmt.dst] = Eval(stmt, [j \in 1..Len(stmt.srcs) |-> m[stmt.srcs[j]]])]

RECURSIVE ExecRun(_, _, _)
ExecRun(prog, i, m) ==
    IF i > Len(prog) THEN m ELSE ExecRun(prog, i + 1, ExecStmt(prog[i], m))

\* The globals after the actions of the tasks of seq executed one after the
\* other from m.
RECURSIVE ExecSeq(_, _, _)
ExecSeq(seq, i, m) ==
    IF i > Len(seq) THEN m
    ELSE ExecSeq(seq, i + 1, ExecRun(Task(seq[i]).run, 1, m))

\* The final values of run_seq() started from fresh globals.
SeqFinal ==
    ExecSeq(TasksQueue(precedence, self_tasks).sequence, 1,
            [v \in GlobalVars |-> 0])

\* C5: on a valid task system whose actions touch only the declared globals,
\* run_seq() and run(), each started from the fresh globals, end with the
\* same final values: those run_seq() computes.
C5_SameFinalValues ==
    pc = "returned" => mem = SeqFinal

\* C6: in the scenario of the six tasks, run_seq() and every interleaving of
\* run() end with Z = 49.
C6_ScenarioZ49 ==
    pc = "returned" => mem["Z"] = 49

\* run() returned in the scenario, T5 having read the squares of X and Y.
C6_Witness ==
    /\ mode = "par" /\ pc = "returned"
    /\ mem = [v \in GlobalVars |-> CASE v = "X" -> 25 [] v = "Y" -> 9 [] OTHER -> 49]

=============================================================================
